---- MODULE Spec2Model ----
(***************************************************************************)
(* A model of ProxyJ (src/src/proxyj.py) and of the proxy states it reads  *)
(* (src/src/states.py).                                                    *)
(*                                                                         *)
(* A proxy's state is a record [kind, recovery_time]; the absence of the   *)
(* `_state` attribute is the record NoState.  A dict is a sequence of      *)
(* [key, val] entries in insertion order (Python dicts keep it), the pool  *)
(* is a sequence of proxies, time.time() is the variable now.              *)
(***************************************************************************)
EXTENDS Integers, Sequences, FiniteSets, TLC

VARIABLES
    ctor,          \* outcome of ProxyJ.__init__: "ok" or "protocol_error"
    providers,     \* self._providers
    switched_off,  \* self._switched_off
    pool,          \* self._pool
    threshold,     \* self._state_threshold
    pstate,        \* the `_state` attribute of every proxy
    now,           \* time.time()
    last,          \* the last call made and how it ended
    scan,          \* a get_one call in progress on the reader thread
    fill           \* a registry call in progress on the admin thread

vars == <<ctor, providers, switched_off, pool, threshold, pstate, now, last, scan, fill>>

(***************************************************************************)
(* Bounds of the model.                                                    *)
(***************************************************************************)
\* the clock runs from 0 to MaxTime
MaxTime == 1
\* timeouts given to Exhausted(timeout) and Quarantined(timeout): 0..MaxTimeout
MaxTimeout == 1

Proxies == {"p1", "p2", "p3"}
NoProxy == "-"

(***************************************************************************)
(* states.py                                                               *)
(***************************************************************************)
NoState == [kind |-> "unset", recovery_time |-> 0]
Pristine == [kind |-> "Pristine", recovery_time |-> 0]
Ready == [kind |-> "Ready", recovery_time |-> 0]
Issued == [kind |-> "Issued", recovery_time |-> 0]
Broken == [kind |-> "Broken", recovery_time |-> 0]

\* Exhausted.__init__ and Quarantined.__init__ called at time t
Exhausted(t, timeout) == [kind |-> "Exhausted", recovery_time |-> t + timeout]
Quarantined(t, timeout) == [kind |-> "Quarantined", recovery_time |-> t + timeout]

Timeouts == 0..MaxTimeout

\* the state objects a caller can hold at time t: the timed ones were built at
\* some time t0 <= t
StateObjects(t) ==
    {Pristine, Ready, Issued, Broken}
        \cup {Exhausted(t0, to) : t0 \in 0..t, to \in Timeouts}
        \cup {Quarantined(t0, to) : t0 \in 0..t, to \in Timeouts}

\* the `value` property of a state, read at time t
Value(s, t) ==
    CASE s.kind = "Pristine" -> 0
      [] s.kind = "Ready" -> 100
      [] s.kind = "Issued" -> 200
      [] s.kind = "Exhausted" -> 300
      [] s.kind = "Quarantined" -> IF s.recovery_time > t THEN 100 ELSE 400
      [] s.kind = "Broken" -> 500

\* Exhausted.self_check comparing with >= : a state still Exhausted at its deadline
ExhaustedSelfCheckLate(s, t) == IF s.recovery_time >= t THEN s ELSE Ready

\* Exhausted.self_check
ExhaustedSelfCheck(s, t) == IF s.recovery_time > t THEN s ELSE Ready

\* self_check with Quarantined recovering at its deadline as Exhausted does
self_checkTimed(s, t) ==
    IF s.kind \in {"Exhausted", "Quarantined"} THEN ExhaustedSelfCheck(s, t) ELSE s

\* self_check of the state's class
self_check(s, t) == IF s.kind = "Exhausted" THEN ExhaustedSelfCheck(s, t) ELSE s

\* Quarantined.change_to without its escalation
QuarantinedChangeToPlain(s, new_state) == new_state

\* Quarantined.change_to
QuarantinedChangeTo(s, new_state) ==
    IF new_state.kind = "Quarantined" THEN Broken ELSE new_state

\* change_to with Broken refusing every new state
change_toTerminal(s, new_state) ==
    IF s.kind = "Broken" THEN s
    ELSE IF s.kind = "Quarantined" THEN QuarantinedChangeTo(s, new_state) ELSE new_state

\* change_to of the state's class
change_to(s, new_state) ==
    IF s.kind = "Quarantined" THEN QuarantinedChangeTo(s, new_state) ELSE new_state

\* __get__ giving a proxy with no `_state` the state Pristine
DescriptorGetDefault(s, t) ==
    IF s = NoState
    THEN [result |-> "ok", state |-> Pristine]
    ELSE [result |-> "ok", state |-> self_check(s, t)]

\* ProxyStateDescriptor.__get__ on a proxy whose `_state` is s, at time t
DescriptorGet(s, t) ==
    IF s = NoState
    THEN [result |-> "attribute_error", state |-> s]
    ELSE [result |-> "ok", state |-> self_check(s, t)]

\* ProxyStateDescriptor.__set__: the `_state` after assigning value
DescriptorSet(s, value) == IF s = NoState THEN value ELSE change_to(s, value)

(***************************************************************************)
(* The record of the last call: the operation, its arguments (name, obj,   *)
(* proxy, arg; of __init__, obj is the provider given alone, if one was),  *)
(* how it ended (result, warned) and, of a read or a write,                *)
(* the proxy's state before it (pre) and the state returned or proposed    *)
(* (arg); of get_one, the proxy returned, its index and whether _mix_pool  *)
(* was called.                                                             *)
(***************************************************************************)
NoCall(op, result) ==
    [op |-> op, result |-> result, name |-> "-", obj |-> "-", proxy |-> NoProxy,
     pre |-> NoState, arg |-> NoState, idx |-> -1, mixed |-> FALSE, warned |-> FALSE]

Idle == [pc |-> "idle"]

(***************************************************************************)
(* Reads, writes and the clock.                                            *)
(***************************************************************************)
\* x = p.state
ReadState(p) ==
    /\ ctor = "ok"
    /\ LET r == DescriptorGet(pstate[p], now) IN
        /\ pstate' = [pstate EXCEPT ![p] = r.state]
        /\ last' = [NoCall("read", r.result) EXCEPT
                        !.proxy = p, !.pre = pstate[p], !.arg = r.state]
    /\ UNCHANGED <<ctor, providers, switched_off, pool, threshold, now, scan, fill>>

\* p.state = value
WriteState(p, value) ==
    /\ ctor = "ok"
    /\ pstate' = [pstate EXCEPT ![p] = DescriptorSet(pstate[p], value)]
    /\ last' = [NoCall("write", "ok") EXCEPT !.proxy = p, !.pre = pstate[p], !.arg = value]
    /\ UNCHANGED <<ctor, providers, switched_off, pool, threshold, now, scan, fill>>

\* time passes
Tick ==
    /\ ctor = "ok"
    /\ now < MaxTime
    /\ now' = now + 1
    /\ last' = NoCall("tick", "ok")
    /\ UNCHANGED <<ctor, providers, switched_off, pool, threshold, pstate, scan, fill>>

(***************************************************************************)
(* Providers: the objects handed to __init__ and add_provider.  "C0" has a *)
(* name and no get_list, "N0" has get_list and no name; "A1" and "A2" are  *)
(* two providers of the same name; "p2" is yielded by two providers.       *)
(***************************************************************************)
ProviderObjs == {"A1", "B1", "A2", "C0", "N0"}
ValidProviders == {"A1", "B1", "A2"}
Names == {"a", "b", "c", "z"}

HasName(o) == o # "N0"
HasGetList(o) == o # "C0"

\* provider.name
NameOf(o) ==
    CASE o \in {"A1", "A2"} -> "a"
      [] o = "B1" -> "b"
      [] o = "C0" -> "c"

\* provider.get_list()
ListOf(o) ==
    CASE o = "A1" -> <<"p1", "p2">>
      [] o = "B1" -> <<"p2", "p3">>
      [] o = "A2" -> <<"p3">>
      [] o = "N0" -> <<"p1">>

(***************************************************************************)
(* dict                                                                    *)
(***************************************************************************)
Keys(d) == {d[i].key : i \in DOMAIN d}
Values(d) == [i \in DOMAIN d |-> d[i].val]

\* d[k], for k in d
DictGet(d, k) == LET i == CHOOSE i \in DOMAIN d : d[i].key = k IN d[i].val

\* d[k] = v: an existing key keeps its place, a new one goes last
DictSet(d, k, v) ==
    IF k \in Keys(d)
    THEN [i \in DOMAIN d |-> IF d[i].key = k THEN [key |-> k, val |-> v] ELSE d[i]]
    ELSE Append(d, [key |-> k, val |-> v])

\* d without the key k
DictPop(d, k) == SelectSeq(d, LAMBDA e : e.key # k)

(***************************************************************************)
(* ProxyJ                                                                  *)
(***************************************************************************)
RECURSIVE DictOf(_)
\* {s.name: s for s in items}, for items that all have a name
DictOf(items) ==
    IF items = <<>> THEN <<>>
    ELSE LET n == Len(items) IN
         DictSet(DictOf(SubSeq(items, 1, n - 1)), NameOf(items[n]), items[n])

\* ProxyJ.__init__ : the outcome and self._providers.  A collection is
\* [iterable |-> TRUE, items]; a single provider is [iterable |-> FALSE, items]
\* with one item, which raises TypeError in the comprehension and then
\* AttributeError on self._providers, which is not assigned yet.
Construct(input) ==
    IF input.iterable
    THEN IF \E i \in DOMAIN input.items : ~HasName(input.items[i])
         THEN [ctor |-> "protocol_error", providers |-> <<>>]
         ELSE [ctor |-> "ok", providers |-> DictOf(input.items)]
    ELSE [ctor |-> "protocol_error", providers |-> <<>>]

\* x without the entries that are in pl or earlier in x
RECURSIVE Fresh(_, _)
Fresh(pl, x) ==
    IF x = <<>> THEN <<>>
    ELSE IF \E i \in DOMAIN pl : pl[i] = Head(x)
    THEN Fresh(pl, Tail(x))
    ELSE <<Head(x)>> \o Fresh(Append(pl, Head(x)), Tail(x))

RECURSIVE ExtendDedup(_, _)
\* the loop of _fill_pool leaving out the proxies the pool holds already
ExtendDedup(pl, objs) ==
    IF objs = <<>> THEN [result |-> "ok", pool |-> pl]
    ELSE IF ~HasGetList(Head(objs)) THEN [result |-> "attribute_error", pool |-> pl]
    ELSE ExtendDedup(pl \o Fresh(pl, ListOf(Head(objs))), Tail(objs))

RECURSIVE Extend(_, _)
\* the loop of _fill_pool over the providers objs, from the pool pl
Extend(pl, objs) ==
    IF objs = <<>> THEN [result |-> "ok", pool |-> pl]
    ELSE IF ~HasGetList(Head(objs)) THEN [result |-> "attribute_error", pool |-> pl]
    ELSE Extend(pl \o ListOf(Head(objs)), Tail(objs))

\* _fill_pool without its clear()
FillPoolNoClear(provs) == Extend(pool, Values(provs))

\* ProxyJ._fill_pool
FillPool(provs) == Extend(<<>>, Values(provs))

\* ProxyJ._mix_pool
MixPool(pl) == pl

\* the comparison of get_one with <= in place of <
EligibleOrEqual(s, t) == Value(s, t) <= threshold

\* p.state.value < self._state_threshold
Eligible(s, t) == Value(s, t) < threshold

\* the else branch with pool_length < 2 in place of pool_length < 1
NoneLeftOffByOne(n) == IF n < 2 THEN "pool_empty" ELSE "none_available"

\* the else branch of get_one's loop, pool_length being n
NoneLeft(n) == IF n < 1 THEN "pool_empty" ELSE "none_available"

RECURSIVE ScanBackFrom(_, _)
\* the loop of get_one over reversed(self._pool): position i from the end
ScanBackFrom(i, ps) ==
    IF i > Len(pool)
    THEN [result |-> NoneLeft(Len(pool)),
          idx |-> -1, proxy |-> NoProxy, ps |-> ps, mixed |-> FALSE]
    ELSE LET k == Len(pool) + 1 - i
             r == DescriptorGet(ps[pool[k]], now)
             ps2 == [ps EXCEPT ![pool[k]] = r.state]
         IN IF r.result # "ok"
            THEN [result |-> r.result, idx |-> -1, proxy |-> NoProxy, ps |-> ps,
                  mixed |-> FALSE]
            ELSE IF Eligible(r.state, now)
            THEN [result |-> "ok", idx |-> k - 1, proxy |-> pool[k], ps |-> ps2,
                  mixed |-> (k - 1) > (Len(pool) \div 3)]
            ELSE ScanBackFrom(i + 1, ps2)

RECURSIVE ScanFrom(_, _)
\* the loop of get_one from the entry at position i (from 1), the proxies'
\* states being ps
ScanFrom(i, ps) ==
    IF i > Len(pool)
    THEN [result |-> NoneLeft(Len(pool)),
          idx |-> -1, proxy |-> NoProxy, ps |-> ps, mixed |-> FALSE]
    ELSE LET r == DescriptorGet(ps[pool[i]], now)
             ps2 == [ps EXCEPT ![pool[i]] = r.state]
         IN IF r.result # "ok"
            THEN [result |-> r.result, idx |-> -1, proxy |-> NoProxy, ps |-> ps,
                  mixed |-> FALSE]
            ELSE IF Eligible(r.state, now)
            THEN [result |-> "ok", idx |-> i - 1, proxy |-> pool[i], ps |-> ps2,
                  mixed |-> (i - 1) > (Len(pool) \div 3)]
            ELSE ScanFrom(i + 1, ps2)

\* get_one assigning Issued to the proxy it returns
GetOneMarking ==
    /\ ctor = "ok"
    /\ LET r == ScanFrom(1, pstate) IN
        /\ pstate' = IF r.result = "ok"
                      THEN [r.ps EXCEPT ![r.proxy] = DescriptorSet(@, Issued)]
                      ELSE r.ps
        /\ pool' = IF r.mixed THEN MixPool(pool) ELSE pool
        /\ last' = [NoCall("get_one", r.result) EXCEPT
                        !.proxy = r.proxy, !.idx = r.idx, !.mixed = r.mixed]
    /\ UNCHANGED <<ctor, providers, switched_off, threshold, now, scan, fill>>

\* ProxyJ.get_one
GetOne ==
    /\ ctor = "ok"
    /\ LET r == ScanFrom(1, pstate) IN
        /\ pstate' = r.ps
        /\ pool' = IF r.mixed THEN MixPool(pool) ELSE pool
        /\ last' = [NoCall("get_one", r.result) EXCEPT
                        !.proxy = r.proxy, !.idx = r.idx, !.mixed = r.mixed]
    /\ UNCHANGED <<ctor, providers, switched_off, threshold, now, scan, fill>>

\* ProxyJ.add_provider
AddProvider(o) ==
    /\ ctor = "ok"
    /\ IF ~HasName(o)
       THEN /\ last' = [NoCall("add_provider", "attribute_error") EXCEPT !.obj = o]
            /\ UNCHANGED <<providers, pool>>
       ELSE LET provs == DictSet(providers, NameOf(o), o)
                r == FillPool(provs)
            IN /\ providers' = provs
               /\ pool' = r.pool
               /\ last' = [NoCall("add_provider", r.result) EXCEPT
                               !.obj = o, !.name = NameOf(o)]
    /\ UNCHANGED <<ctor, switched_off, threshold, pstate, now, scan, fill>>

\* ProxyJ.del_provider
DelProvider(name) ==
    /\ ctor = "ok"
    /\ LET provs == DictPop(providers, name)
           r == FillPool(provs)
       IN /\ providers' = provs
          /\ pool' = r.pool
          /\ last' = [NoCall("del_provider", r.result) EXCEPT !.name = name]
    /\ UNCHANGED <<ctor, switched_off, threshold, pstate, now, scan, fill>>

\* ProxyJ.switch_provider_off
SwitchProviderOff(name) ==
    /\ ctor = "ok"
    /\ IF name \in Keys(providers)
       THEN LET provs == DictPop(providers, name)
                r == FillPool(provs)
            IN /\ switched_off' = DictSet(switched_off, name, DictGet(providers, name))
               /\ providers' = provs
               /\ pool' = r.pool
               /\ last' = [NoCall("switch_provider_off", r.result) EXCEPT !.name = name]
       ELSE /\ last' = [NoCall("switch_provider_off", "ok") EXCEPT
                            !.name = name, !.warned = TRUE]
            /\ UNCHANGED <<providers, switched_off, pool>>
    /\ UNCHANGED <<ctor, threshold, pstate, now, scan, fill>>

\* ProxyJ.switch_provider_on
SwitchProviderOn(name) ==
    /\ ctor = "ok"
    /\ IF name \in Keys(switched_off)
       THEN LET provs == DictSet(providers, name, DictGet(switched_off, name))
                r == FillPool(provs)
            IN /\ providers' = provs
               /\ switched_off' = DictPop(switched_off, name)
               /\ pool' = r.pool
               /\ last' = [NoCall("switch_provider_on", r.result) EXCEPT !.name = name]
       ELSE /\ last' = [NoCall("switch_provider_on", "ok") EXCEPT
                            !.name = name, !.warned = TRUE]
            /\ UNCHANGED <<providers, switched_off, pool>>
    /\ UNCHANGED <<ctor, threshold, pstate, now, scan, fill>>

(***************************************************************************)
(* Specifications.  Every one starts from a manager just constructed, with *)
(* no proxy state assigned yet unless said otherwise.                      *)
(***************************************************************************)
Thresholds == {100, 250}

\* the state after ProxyJ(input, th), the proxies' states being ps
Constructed(input, th, ps) ==
    /\ ctor = Construct(input).ctor
    /\ providers = Construct(input).providers
    /\ switched_off = <<>>
    /\ pool = <<>>
    /\ threshold = th
    /\ pstate = ps
    /\ now = 0
    /\ last = [NoCall("init", Construct(input).ctor) EXCEPT
                   !.obj = IF input.iterable THEN "-" ELSE input.items[1]]
    /\ scan = Idle
    /\ fill = Idle

Collection(items) == [iterable |-> TRUE, items |-> items]
Single(o) == [iterable |-> FALSE, items |-> <<o>>]

\* Proxy states alone: reads, writes and the clock.
InitState == Constructed(Collection(<<>>), 250, [p \in Proxies |-> NoState])

NextState ==
    \/ \E p \in Proxies : ReadState(p)
    \/ \E p \in Proxies : \E s \in StateObjects(now) : WriteState(p, s)
    \/ Tick

SpecState == InitState /\ [][NextState]_vars

\* Selection: get_one over the pools of valid providers, whose proxies hold
\* any state a provider can have given them at time 0, or none.
InitSelect ==
    \E items \in {<<>>, <<"A1">>, <<"A1", "B1">>} : \E th \in Thresholds :
        \E ps \in [Proxies -> StateObjects(0) \cup {NoState}] :
            Constructed(Collection(items), th, ps)

NextSelect ==
    \/ GetOne
    \/ \E o \in ValidProviders : AddProvider(o)
    \/ \E n \in {"a", "b"} : DelProvider(n)
    \/ Tick

SpecSelect == InitSelect /\ [][NextSelect]_vars

\* The registry: every provider object and name, over proxies that are
\* Ready or Broken for good.
Inputs ==
    {Collection(items) : items \in {<<>>, <<"A1">>, <<"A1", "B1">>, <<"A1", "A2">>,
                                    <<"B1", "C0">>, <<"A1", "N0">>}}
        \cup {Single("A1")}

InitRegistry ==
    \E input \in Inputs : \E ps \in [Proxies -> {Ready, Broken}] :
        Constructed(input, 250, ps)

NextRegistry ==
    \/ GetOne
    \/ \E o \in ProviderObjs : AddProvider(o)
    \/ \E n \in Names : DelProvider(n)
    \/ \E n \in Names : SwitchProviderOff(n)
    \/ \E n \in Names : SwitchProviderOn(n)

SpecRegistry == InitRegistry /\ [][NextRegistry]_vars

(***************************************************************************)
(* Two threads on one manager, which takes no lock: a reader in get_one    *)
(* and an admin in a registry call.  A thread switch can fall between two  *)
(* iterations of get_one's loop and between clear() and each extend() of   *)
(* _fill_pool (get_list is a call into the provider).  scan.whole collects *)
(* the complete pools there were while the scan ran: the pool before a     *)
(* rebuild in progress and the pool after each rebuild that ended.         *)
(***************************************************************************)
\* get_one, up to its loop: pool_length and the list iterator
T_GetOneBegin ==
    /\ ctor = "ok"
    /\ scan.pc = "idle"
    /\ scan' = [pc |-> "loop", n |-> Len(pool), i |-> 0, seen |-> <<>>,
                whole |-> {IF fill.pc = "idle" THEN pool ELSE fill.before},
                result |-> "-", proxy |-> NoProxy]
    /\ UNCHANGED <<ctor, providers, switched_off, pool, threshold, pstate, now, last, fill>>

\* one iteration of get_one's loop: the list iterator yields the entry at
\* its index if the list, as it is now, has one, and ends the loop if not
T_GetOneNext ==
    /\ scan.pc = "loop"
    /\ IF scan.i < Len(pool)
       THEN LET p == pool[scan.i + 1]
                r == DescriptorGet(pstate[p], now)
            IN IF r.result # "ok"
               THEN /\ scan' = [scan EXCEPT !.pc = "done", !.result = r.result,
                                            !.seen = Append(@, p)]
                    /\ UNCHANGED pstate
               ELSE /\ pstate' = [pstate EXCEPT ![p] = r.state]
                    /\ scan' = IF Eligible(r.state, now)
                               THEN [scan EXCEPT !.pc = "done", !.result = "ok",
                                                 !.proxy = p, !.seen = Append(@, p)]
                               ELSE [scan EXCEPT !.i = @ + 1, !.seen = Append(@, p)]
       ELSE /\ scan' = [scan EXCEPT !.pc = "done", !.result = NoneLeft(scan.n)]
            /\ UNCHANGED pstate
    /\ UNCHANGED <<ctor, providers, switched_off, pool, threshold, now, last, fill>>

\* get_one returns or raises
T_GetOneEnd ==
    /\ scan.pc = "done"
    /\ scan' = Idle
    /\ UNCHANGED <<ctor, providers, switched_off, pool, threshold, pstate, now, last, fill>>

\* the dict statement of a registry call that goes on to _fill_pool
T_Mutate(provs, off) ==
    /\ ctor = "ok"
    /\ fill.pc = "idle"
    /\ providers' = provs
    /\ switched_off' = off
    /\ fill' = [pc |-> "clear", todo |-> <<>>, before |-> pool]
    /\ UNCHANGED <<ctor, pool, threshold, pstate, now, last, scan>>

T_AddProvider(o) == T_Mutate(DictSet(providers, NameOf(o), o), switched_off)

T_DelProvider(name) == T_Mutate(DictPop(providers, name), switched_off)

T_SwitchProviderOff(name) ==
    /\ name \in Keys(providers)
    /\ T_Mutate(DictPop(providers, name),
                DictSet(switched_off, name, DictGet(providers, name)))

T_SwitchProviderOn(name) ==
    /\ name \in Keys(switched_off)
    /\ T_Mutate(DictSet(providers, name, DictGet(switched_off, name)),
                DictPop(switched_off, name))

\* the rebuild has ended with the pool pl
T_Rebuilt(pl) ==
    /\ fill' = Idle
    /\ scan' = IF scan.pc = "loop" THEN [scan EXCEPT !.whole = @ \cup {pl}] ELSE scan

\* self._pool.clear(), and the start of the loop over self._providers.values()
T_Clear ==
    /\ fill.pc = "clear"
    /\ pool' = <<>>
    /\ IF providers = <<>>
       THEN T_Rebuilt(<<>>)
       ELSE fill' = [fill EXCEPT !.pc = "extend", !.todo = Values(providers)] /\ UNCHANGED scan
    /\ UNCHANGED <<ctor, providers, switched_off, threshold, pstate, now, last>>

\* self._pool.extend(s.get_list()) for the next provider
T_Extend ==
    /\ fill.pc = "extend"
    /\ pool' = pool \o ListOf(Head(fill.todo))
    /\ IF Tail(fill.todo) = <<>>
       THEN T_Rebuilt(pool')
       ELSE fill' = [fill EXCEPT !.todo = Tail(@)] /\ UNCHANGED scan
    /\ UNCHANGED <<ctor, providers, switched_off, threshold, pstate, now, last>>

InitThreads ==
    \E items \in {<<>>, <<"A1">>, <<"A1", "B1">>} :
        \E ps \in [Proxies -> {Ready, Broken}] :
            Constructed(Collection(items), 250, ps)

NextThreads ==
    \/ T_GetOneBegin
    \/ T_GetOneNext
    \/ T_GetOneEnd
    \/ \E o \in {"A1", "B1"} : T_AddProvider(o)
    \/ \E n \in {"a", "b"} : T_DelProvider(n)
    \/ \E n \in {"a", "b"} : T_SwitchProviderOff(n)
    \/ \E n \in {"a", "b"} : T_SwitchProviderOn(n)
    \/ T_Clear
    \/ T_Extend

SpecThreads == InitThreads /\ [][NextThreads]_vars

(***************************************************************************)
(* Properties.                                                             *)
(***************************************************************************)
Range(f) == {f[i] : i \in DOMAIN f}

\* a proxy that has a state whose value, now, is not below the threshold
Ineligible(p) == pstate[p] # NoState /\ Value(pstate[p], now) >= threshold

Returned == last.op = "get_one" /\ last.result = "ok"

\* the proxies a provider yields (none without get_list)
YieldOf(o) == IF HasGetList(o) THEN Range(ListOf(o)) ELSE {}

\* the proxies the active providers yield
ActiveProxies == UNION {YieldOf(o) : o \in Range(Values(providers))}

\* C1: a proxy returned by get_one has, when it is returned, a value strictly
\* below the threshold (so never one equal to it).
C1_ReturnedBelowThreshold ==
    Returned => Value(pstate[last.proxy], now) < threshold

\* get_one has passed over an entry whose value equals the threshold and
\* returned a later one
C1_Witness ==
    /\ Returned
    /\ last.idx > 0
    /\ \E j \in 1..last.idx :
          pstate[pool[j]] # NoState /\ Value(pstate[pool[j]], now) = threshold

\* C2: get_one returns the first eligible entry in pool order: every entry
\* before the index it returns has, after its read, a value at or above the
\* threshold.
C2_FirstEligible ==
    Returned =>
        /\ pool[last.idx + 1] = last.proxy
        /\ \A j \in 1..last.idx : Ineligible(pool[j])

\* get_one has returned the entry at index 2 or later
C2_Witness == Returned /\ last.idx >= 2

\* C3: right after construction the pool holds every proxy the providers
\* yield, list after list (so its length is the sum of their lengths).
C3_PoolFilledByConstructor ==
    (last.op = "init" /\ ctor = "ok") => pool = FillPool(providers).pool

\* C4: a get_one that finds no entry below the threshold fails with the
\* pool-empty error exactly when the pool is empty and with the none-available
\* error exactly when the pool is not empty and every entry is ineligible; it
\* leaves the pool and both maps as they were.
C4_Failures ==
    /\ [](last.op = "get_one" =>
            /\ last.result = "pool_empty" <=> Len(pool) = 0
            /\ last.result = "none_available" <=>
                  (Len(pool) > 0 /\ \A j \in DOMAIN pool : Ineligible(pool[j])))
    /\ [][(last'.op = "get_one" /\ last'.result \in {"pool_empty", "none_available"})
             => UNCHANGED <<pool, providers, switched_off>>]_vars

\* get_one has failed on a pool of two or more entries, all ineligible
C4_Witness ==
    last.op = "get_one" /\ last.result = "none_available" /\ Len(pool) >= 2

\* C5: no provider name is a key of both the active and the switched-off map.
C5_MapsDisjoint == Keys(providers) \cap Keys(switched_off) = {}

\* C6: a read of an Exhausted proxy returns and keeps that state while its
\* deadline has not passed, returns and stores Ready from the deadline on, and
\* a read of a Ready proxy returns and keeps Ready.
C6_ExhaustedRecovers ==
    last.op = "read" =>
        /\ last.pre.kind = "Exhausted" =>
              IF last.pre.recovery_time > now
              THEN last.arg = last.pre /\ pstate[last.proxy] = last.pre
              ELSE last.arg = Ready /\ pstate[last.proxy] = Ready
        /\ last.pre = Ready => (last.arg = Ready /\ pstate[last.proxy] = Ready)

\* an Exhausted proxy has been read exactly at its deadline and is Ready
C6_Witness ==
    /\ last.op = "read"
    /\ last.pre.kind = "Exhausted"
    /\ last.pre.recovery_time = now
    /\ now > 0
    /\ pstate[last.proxy] = Ready

\* C7: assigning a Quarantined state to a proxy whose state is Quarantined
\* leaves it Broken, whether or not the deadline has passed; assigning it to a
\* proxy in any other state, or in none, leaves it with the assigned state.
C7_QuarantineTwiceBreaks ==
    (last.op = "write" /\ last.arg.kind = "Quarantined") =>
        IF last.pre.kind = "Quarantined"
        THEN pstate[last.proxy] = Broken
        ELSE pstate[last.proxy] = last.arg

\* a Quarantined proxy whose deadline has passed was assigned Quarantined
C7_Witness ==
    /\ last.op = "write"
    /\ last.arg.kind = "Quarantined"
    /\ last.pre.kind = "Quarantined"
    /\ last.pre.recovery_time <= now
    /\ pstate[last.proxy] = Broken

\* what a finished scan saw is what it would have seen of the pool pl alone:
\* pl's length, pl's entries in order, and all of them if it found none
SawOnly(pl) ==
    /\ scan.n = Len(pl)
    /\ Len(scan.seen) <= Len(pl)
    /\ \A j \in DOMAIN scan.seen : scan.seen[j] = pl[j]
    /\ scan.result # "ok" => Len(scan.seen) = Len(pl)

\* C8: with get_one running beside registry calls, every scan sees one
\* complete pool, the one before a rebuild or the one after it, never a
\* cleared or partly refilled one.
C8_ScanSeesWholePool ==
    scan.pc = "done" => \E pl \in scan.whole : SawOnly(pl)

\* C9: after a switch_provider_off that moved a provider, the pool holds only
\* proxies of the active providers, and while a name is switched off and not
\* active get_one returns no proxy that only its provider yields.
C9_DisabledNotIssued ==
    /\ (last.op = "switch_provider_off" /\ ~last.warned) =>
          Range(pool) \subseteq ActiveProxies
    /\ Returned =>
          \A n \in Keys(switched_off) \ Keys(providers) :
              last.proxy \in YieldOf(DictGet(switched_off, n))
                  => last.proxy \in ActiveProxies

\* "a" is switched off, its proxy p1 is Ready, and get_one has returned another
C9_Witness ==
    /\ Returned
    /\ "a" \in Keys(switched_off) \ Keys(providers)
    /\ DictGet(switched_off, "a") = "A1"
    /\ pstate["p1"] = Ready
    /\ last.proxy # "p1"

\* C10: del_provider of a name that is not active raises nothing and leaves
\* the two maps and the pool as they were.
C10_DelAbsentIsNoOp ==
    [][\A n \in Names :
          (last'.op = "del_provider" /\ last'.name = n /\ n \notin Keys(providers))
              => (last'.result = "ok" /\ UNCHANGED <<providers, switched_off, pool>>)]_vars

\* the lists of the providers objs, one after the other
RECURSIVE ConcatLists(_)
ConcatLists(objs) ==
    IF objs = <<>> THEN <<>> ELSE ListOf(Head(objs)) \o ConcatLists(Tail(objs))

\* C11: switch_provider_off of a name that is switched off already, or that
\* is in neither map, warns, raises nothing, rebuilds nothing and leaves the
\* two maps and the pool as they were.
C11_OffUnknownIsNoOp ==
    [][\A n \in Names :
          (/\ last'.op = "switch_provider_off"
           /\ last'.name = n
           /\ (n \in Keys(switched_off) \/ n \notin Keys(providers)))
              => (/\ last'.warned
                  /\ last'.result = "ok"
                  /\ UNCHANGED <<providers, switched_off, pool>>)]_vars

\* C12: switch_provider_on of a switched-off name moves its provider to the
\* active map and rebuilds the pool; of a name that is active already, or in
\* neither map, it warns and leaves the two maps and the pool as they were.
C12_OnMirrorsOff ==
    [][\A n \in Names :
          (last'.op = "switch_provider_on" /\ last'.name = n) =>
              /\ n \in Keys(switched_off) =>
                    /\ ~last'.warned
                    /\ n \in Keys(providers')
                    /\ DictGet(providers', n) = DictGet(switched_off, n)
                    /\ n \notin Keys(switched_off')
                    /\ last'.result = "ok" => pool' = ConcatLists(Values(providers'))
              /\ (n \in Keys(providers) \/ n \notin Keys(switched_off)) =>
                    /\ last'.warned
                    /\ last'.result = "ok"
                    /\ UNCHANGED <<providers, switched_off, pool>>]_vars

\* C14: add_provider of an object without a name, or without get_list, fails
\* and leaves the two maps and the pool as they were.
C14_BadProviderRejected ==
    [][\A o \in ProviderObjs :
          (last'.op = "add_provider" /\ last'.obj = o /\ ~(HasName(o) /\ HasGetList(o)))
              => (/\ last'.result = "attribute_error"
                  /\ UNCHANGED <<providers, switched_off, pool>>)]_vars

\* C15: constructing the manager with one valid provider, not in a
\* collection, succeeds: the active map holds that provider under its name
\* and the switched-off map is empty.
C15_SingleProviderAccepted ==
    (last.op = "init" /\ last.obj \in ValidProviders) =>
        /\ ctor = "ok"
        /\ providers = <<[key |-> NameOf(last.obj), val |-> last.obj]>>
        /\ switched_off = <<>>

\* C13: a get_one that finds its match at an index above pool_length div 3
\* changes the order of the pool, so that later scans do not keep passing
\* over the eligible entries behind the first one.
C13_MixChangesOrder ==
    [][(last'.op = "get_one" /\ last'.mixed) => pool' # pool]_vars

\* a registry call that went through: it changed a map, rebuilt and raised nothing
Rebuilt ==
    /\ last.op \in {"add_provider", "del_provider", "switch_provider_off",
                    "switch_provider_on"}
    /\ last.result = "ok"
    /\ ~last.warned

\* C16: after a registry call that went through the pool is the lists of the
\* active providers, one after the other in the order of the active map and
\* each in its own order, a proxy of two providers being there twice; after an
\* add_provider the name is that of the new provider alone.
C16_PoolIsConcatenation ==
    /\ Rebuilt => pool = ConcatLists(Values(providers))
    /\ (Rebuilt /\ last.op = "add_provider") =>
          /\ DictGet(providers, last.name) = last.obj
          /\ Cardinality({i \in DOMAIN providers : providers[i].key = last.name}) = 1

\* A2 has taken the place of A1 before B1: p3 is in the pool twice, p1 is not
C16_Witness ==
    /\ Rebuilt
    /\ last.op = "add_provider"
    /\ last.obj = "A2"
    /\ pool = <<"p3", "p2", "p3">>

\* C17: a read of a proxy with no state fails and leaves it with none; the
\* first write stores the proposed state as it is; a proxy with a state is
\* read without error, and never goes back to having none.
C17_StateOnceSet ==
    /\ [](/\ (last.op = "read" /\ last.pre = NoState) =>
                (last.result = "attribute_error" /\ pstate[last.proxy] = NoState)
          /\ (last.op = "read" /\ last.pre # NoState) =>
                (last.result = "ok" /\ pstate[last.proxy] # NoState)
          /\ (last.op = "write" /\ last.pre = NoState) =>
                pstate[last.proxy] = last.arg)
    /\ [][\A p \in Proxies : pstate[p] # NoState => pstate'[p] # NoState]_vars

\* a proxy with no state was read, in vain, while another was given
\* Quarantined as its first state
C17_Witness ==
    /\ last.op = "read"
    /\ last.pre = NoState
    /\ last.result = "attribute_error"
    /\ \E p \in Proxies : pstate[p].kind = "Quarantined"

\* C18: a read of a Quarantined proxy returns and keeps that very state, of
\* value 100 before its deadline and 400 from the deadline on; nothing but a
\* write changes the state of a Quarantined proxy.
C18_QuarantinedStays ==
    /\ []((last.op = "read" /\ last.pre.kind = "Quarantined") =>
            /\ last.result = "ok"
            /\ last.arg = last.pre
            /\ pstate[last.proxy] = last.pre
            /\ Value(last.arg, now) = IF last.pre.recovery_time > now THEN 100 ELSE 400)
    /\ [][\A p \in Proxies :
            (pstate[p].kind = "Quarantined" /\ pstate'[p] # pstate[p])
                => (last'.op = "write" /\ last'.proxy = p)]_vars

\* a Quarantined proxy was read after its deadline
C18_Witness ==
    /\ last.op = "read"
    /\ last.pre.kind = "Quarantined"
    /\ last.pre.recovery_time < now
    /\ pstate[last.proxy] = last.pre

Inert == {Pristine, Ready, Issued, Broken}

\* C19: a read of a Pristine, Ready, Issued or Broken proxy returns and keeps
\* its state, a write to one stores the proposed state as it is, and nothing
\* but a write (no read, no passage of time) changes such a state.
C19_InertStates ==
    /\ [](/\ (last.op = "read" /\ last.pre \in Inert) =>
                (last.result = "ok" /\ last.arg = last.pre /\ pstate[last.proxy] = last.pre)
          /\ (last.op = "write" /\ last.pre \in Inert) =>
                pstate[last.proxy] = last.arg)
    /\ [][\A p \in Proxies :
            (pstate[p] \in Inert /\ pstate'[p] # pstate[p])
                => (last'.op = "write" /\ last'.proxy = p)]_vars

\* a Broken proxy was assigned Ready and is Ready
C19_Witness ==
    /\ last.op = "write"
    /\ last.pre = Broken
    /\ last.arg = Ready
    /\ pstate[last.proxy] = Ready

\* the proxies get_one has read: all of the pool if it returned none
Scanned(l) ==
    IF l.result = "ok" THEN {pool[j] : j \in 1..(l.idx + 1)} ELSE Range(pool)

====
